---------------------------- MODULE Spec2Model ----------------------------
(***************************************************************************)
(* A model of pre-commit-mcp: the exposed operation pre_commit_run_tool    *)
(* (src/pre_commit_mcp/server.py) and the pipeline behind it               *)
(* (src/pre_commit_mcp/tools.py): prechecks, the process runner with its   *)
(* timeout, the output sanitizer, the result classifier and parser, and    *)
(* the modified-files reporter.                                            *)
(*                                                                         *)
(* Text is a sequence of characters; a character is a one-character        *)
(* string, except for the few characters TLA+ strings cannot hold, which   *)
(* are named (ESC, CheckMark, CrossMark, ReplacementChar, BadByte).        *)
(***************************************************************************)
EXTENDS Integers, Sequences, FiniteSets, TLC

VARIABLES
    \* ---- the environment ----
    gitMarker,      \* Path(".git").exists()
    configPresent,  \* Path(".pre-commit-config.yaml").exists()
    now,            \* time.time(), in seconds
    \* ---- one entry per invocation ----
    active,         \* the invocations a behaviour may start
    pc,             \* where each invocation stands
    entry,          \* the function the caller invoked
    force,          \* the force_non_git argument
    start_time,     \* pre_commit_run's start_time
    wait_start,     \* the time asyncio.wait_for was entered
    proc,           \* the pre-commit child process of the invocation
    outcome,        \* what _run_precommit_command returned
    execution_time, \* pre_commit_run's execution_time (line 42)
    modified,       \* what _get_modified_files returned
    gitrc,          \* the exit code of the git status query
    result,         \* what the caller received
    log,            \* the external steps of the invocation, in order
    \* ---- the pure functions, applied to a drawn input ----
    input,          \* the text drawn
    applied,        \* whether the function has been applied
    output          \* what it returned

vars == <<gitMarker, configPresent, now, active, pc, entry, force, start_time,
          wait_start, proc, outcome, execution_time, modified, gitrc, result,
          log, input, applied, output>>

envVars  == <<gitMarker, configPresent>>
callVars == <<active, pc, entry, force, start_time, wait_start, proc, outcome,
              execution_time, modified, gitrc, result, log>>
pureVars == <<input, applied, output>>

-----------------------------------------------------------------------------
(* Characters *)

ESC == "ESC"
CheckMark == "U+2713"
CrossMark == "U+2717"
ReplacementChar == "U+FFFD"
BadByte == "0xFF"
Backtick == "U+0060"

Ascii ==
    <<" ", "!", "\"", "#", "$", "%", "&", "'", "(", ")", "*", "+", ",", "-",
      ".", "/", "0", "1", "2", "3", "4", "5", "6", "7", "8", "9", ":", ";",
      "<", "=", ">", "?", "@", "A", "B", "C", "D", "E", "F", "G", "H", "I",
      "J", "K", "L", "M", "N", "O", "P", "Q", "R", "S", "T", "U", "V", "W",
      "X", "Y", "Z", "[", "\\", "]", "^", "_", Backtick, "a", "b", "c", "d", "e",
      "f", "g", "h", "i", "j", "k", "l", "m", "n", "o", "p", "q", "r", "s",
      "t", "u", "v", "w", "x", "y", "z", "{", "|", "}", "~">>

\* The code point of a character.
Ord(c) ==
    CASE c = ESC -> 27
      [] c = "\t" -> 9
      [] c = "\n" -> 10
      [] c = "\r" -> 13
      [] c = CheckMark -> 10003
      [] c = CrossMark -> 10007
      [] c = ReplacementChar -> 65533
      [] OTHER -> 31 + (CHOOSE i \in 1..Len(Ascii) : Ascii[i] = c)

\* str.lower() of one character.
LowerChar(c) ==
    IF c \in {CheckMark, CrossMark, ReplacementChar, ESC, "\t", "\n", "\r"}
    THEN c
    ELSE IF Ord(c) >= 65 /\ Ord(c) <= 90 THEN Ascii[Ord(c) + 32 - 31] ELSE c

\* The characters str.strip() and str.split() take for whitespace.
Whitespace == {" ", "\t", "\n", "\r"}

-----------------------------------------------------------------------------
(* Text primitives of the Python runtime *)

Lower(s) == [i \in 1..Len(s) |-> LowerChar(s[i])]

\* s[:n]
Take(s, n) == SubSeq(s, 1, IF Len(s) < n THEN Len(s) ELSE n)

\* s[n:]
Drop(s, n) == SubSeq(s, n + 1, Len(s))

\* sub in s
Contains(s, sub) ==
    \E i \in 1..(Len(s) - Len(sub) + 1) : SubSeq(s, i, i + Len(sub) - 1) = sub

StartsWith(s, pre) == Len(pre) <= Len(s) /\ SubSeq(s, 1, Len(pre)) = pre

EndsWith(s, suf) ==
    Len(suf) <= Len(s) /\ SubSeq(s, Len(s) - Len(suf) + 1, Len(s)) = suf

\* The first index of character c in s, or 0.
IndexOf(s, c) ==
    IF \E i \in 1..Len(s) : s[i] = c
    THEN CHOOSE i \in 1..Len(s) : s[i] = c /\ \A j \in 1..(i - 1) : s[j] # c
    ELSE 0

\* s.strip()
Strip(s) ==
    LET keep == {i \in 1..Len(s) : s[i] \notin Whitespace}
    IN  IF keep = {} THEN <<>>
        ELSE LET lo == CHOOSE i \in keep : \A j \in keep : i <= j
                 hi == CHOOSE i \in keep : \A j \in keep : j <= i
             IN  SubSeq(s, lo, hi)

RECURSIVE SplitOn(_, _)
\* s.split(c), c one character: the pieces between the occurrences of c.
SplitOn(s, c) ==
    LET k == IndexOf(s, c)
    IN  IF k = 0 THEN <<s>>
        ELSE <<SubSeq(s, 1, k - 1)>> \o SplitOn(Drop(s, k), c)

RECURSIVE SplitWhitespace(_)
\* s.split(): the maximal runs of non-whitespace characters.
SplitWhitespace(s) ==
    IF s = <<>> THEN <<>>
    ELSE IF s[1] \in Whitespace THEN SplitWhitespace(Drop(s, 1))
    ELSE LET ws == {i \in 1..Len(s) : s[i] \in Whitespace}
             k == IF ws = {} THEN Len(s) + 1
                  ELSE CHOOSE i \in ws : \A j \in ws : i <= j
         IN  <<SubSeq(s, 1, k - 1)>> \o SplitWhitespace(Drop(s, k - 1))

\* Whether some element of the sequence of texts subs occurs in s.
ContainsAny(s, subs) == \E k \in 1..Len(subs) : Contains(s, subs[k])

\* The text of a string literal of the source, character by character.
Passed == <<"P", "a", "s", "s", "e", "d">>
PASSED == <<"P", "A", "S", "S", "E", "D">>
Failed == <<"F", "a", "i", "l", "e", "d">>
FAILED == <<"F", "A", "I", "L", "E", "D">>
Skipped == <<"S", "k", "i", "p", "p", "e", "d">>
SKIPPED == <<"S", "K", "I", "P", "P", "E", "D">>
NoFilesToCheck ==
    <<"(", "n", "o", " ", "f", "i", "l", "e", "s", " ", "t", "o", " ", "c",
      "h", "e", "c", "k", ")">>

-----------------------------------------------------------------------------
(* _strip_ansi_codes *)

InRange(c, lo, hi) == Ord(c) >= lo /\ Ord(c) <= hi

RECURSIVE SkipClass(_, _, _, _)
\* The first index from i on whose character is outside lo..hi: a greedy
\* [lo-hi]* (what follows it in the pattern shares no character with it, so
\* the match never gives a character back).
SkipClass(s, i, lo, hi) ==
    IF i <= Len(s) /\ InRange(s[i], lo, hi) THEN SkipClass(s, i + 1, lo, hi)
    ELSE i

\* The length of the match of
\*     \x1B(?:[@-Z\\-_]|\[[0-?]*[ -/]*[@-~])
\* that starts at index i of s, or 0 when none does.
AnsiMatchLen(s, i) ==
    IF ~(i + 1 <= Len(s) /\ s[i] = ESC) THEN 0
    ELSE IF InRange(s[i + 1], 64, 90) \/ InRange(s[i + 1], 92, 95) THEN 2
    ELSE IF s[i + 1] # "[" THEN 0
    ELSE LET j == SkipClass(s, SkipClass(s, i + 2, 48, 63), 32, 47)
         IN  IF j <= Len(s) /\ InRange(s[j], 64, 126) THEN j - i + 1 ELSE 0

RECURSIVE AnsiSubFrom(_, _)
\* re.sub("", text) from index i on: the leftmost matches, not overlapping,
\* removed in one scan.
AnsiSubFrom(s, i) ==
    IF i > Len(s) THEN <<>>
    ELSE LET n == AnsiMatchLen(s, i)
         IN  IF n > 0 THEN AnsiSubFrom(s, i + n)
             ELSE <<s[i]>> \o AnsiSubFrom(s, i + 1)

_strip_ansi_codes(text) == AnsiSubFrom(text, 1)


-----------------------------------------------------------------------------
(* Python values *)

\* None, and a value that is not None, where a field holds either.
None == [isNone |-> TRUE]
Some(v) == [isNone |-> FALSE, val |-> v]

\* Python's truth value of an optional text: None and "" are false.
Truthy(o) == ~o.isNone /\ o.val # <<>>

\* bytes.decode("utf-8", errors="replace"): every byte that is no UTF-8
\* becomes U+FFFD.
DecodeReplace(bytes) ==
    [i \in 1..Len(bytes) |->
        IF bytes[i] = BadByte THEN ReplacementChar ELSE bytes[i]]

\* bytes.decode("utf-8"): raises UnicodeDecodeError on such a byte.
DecodeStrictRaises(bytes) == \E i \in 1..Len(bytes) : bytes[i] = BadByte

-----------------------------------------------------------------------------
(* _extract_warnings_and_info *)

WarningTag == <<"[", "W", "A", "R", "N", "I", "N", "G", "]">>
InfoTag == <<"[", "I", "N", "F", "O", "]">>

RECURSIVE WarningsOf(_)
WarningsOf(lines) ==
    IF lines = <<>> THEN <<>>
    ELSE LET stripped == Strip(Head(lines))
         IN  (IF StartsWith(stripped, WarningTag) \/ StartsWith(stripped, InfoTag)
              THEN <<stripped>> ELSE <<>>) \o WarningsOf(Tail(lines))

_extract_warnings_and_info(out) == WarningsOf(SplitOn(out, "\n"))

-----------------------------------------------------------------------------
(* _extract_summary *)

PassedMarkers == <<Passed, <<CheckMark>>, PASSED>>
FailedMarkers == <<Failed, <<CrossMark>>, FAILED>>
SkippedMarkers == <<Skipped, SKIPPED, NoFilesToCheck>>

ZeroSummary == [hooks_passed |-> 0, hooks_failed |-> 0, hooks_skipped |-> 0]

\* The summary with every counter a line of both kinds would raise, were
\* the branches independent tests.
SummaryLineIndependent(sum, line) ==
    [hooks_passed |-> sum.hooks_passed
                        + (IF ContainsAny(line, PassedMarkers) THEN 1 ELSE 0),
     hooks_failed |-> sum.hooks_failed
                        + (IF ContainsAny(line, FailedMarkers) THEN 1 ELSE 0),
     hooks_skipped |-> sum.hooks_skipped
                        + (IF ContainsAny(line, SkippedMarkers) THEN 1 ELSE 0)]

\* The body of the loop of _extract_summary: the if/elif/elif chain.
SummaryLine(sum, line) ==
    IF ContainsAny(line, PassedMarkers)
    THEN [sum EXCEPT !.hooks_passed = @ + 1]
    ELSE IF ContainsAny(line, FailedMarkers)
    THEN [sum EXCEPT !.hooks_failed = @ + 1]
    ELSE IF ContainsAny(line, SkippedMarkers)
    THEN [sum EXCEPT !.hooks_skipped = @ + 1]
    ELSE sum

RECURSIVE SummaryLoop(_, _)
SummaryLoop(sum, lines) ==
    IF lines = <<>> THEN sum
    ELSE SummaryLoop(SummaryLine(sum, Head(lines)), Tail(lines))

_extract_summary(out) == SummaryLoop(ZeroSummary, SplitOn(out, "\n"))

-----------------------------------------------------------------------------
(* _extract_failures *)

\* chr(n) of a printable ASCII code point.
Chr(n) == Ascii[n - 31]

Extensions ==
    << <<".", "p", "y">>, <<".", "y", "a", "m", "l">>, <<".", "y", "m", "l">>,
       <<".", "t", "o", "m", "l">>, <<".", "j", "s", "o", "n">> >>

ErrorIndicators ==
    << <<"e", "r", "r", "o", "r">>, <<"w", "a", "r", "n", "i", "n", "g">> >>
    \o [d \in 1..10 |-> <<"e", Chr(47 + d)>>]
    \o [d \in 1..10 |-> <<"f", Chr(47 + d)>>]

\* The parser's variables before the first line.
FailuresStart ==
    [failures |-> <<>>, current_hook |-> None, current_files |-> <<>>,
     current_errors |-> <<>>]

\* line.strip().endswith(("FAILED", "Failed"))
IsFailedLine(line) ==
    EndsWith(Strip(line), FAILED) \/ EndsWith(Strip(line), Failed)

\* line.split(".")[0].strip() if "." in line else line.strip()
HookName(line) ==
    IF IndexOf(line, ".") # 0 THEN Strip(SplitOn(line, ".")[1]) ELSE Strip(line)

RECURSIVE AddFiles(_, _)
\* The tokens of parts that hold an extension, appended to files unless
\* already there.
AddFiles(files, parts) ==
    IF parts = <<>> THEN files
    ELSE LET part == Head(parts)
             seen == \E k \in 1..Len(files) : files[k] = part
         IN  AddFiles(IF ContainsAny(part, Extensions) /\ ~seen
                      THEN Append(files, part) ELSE files,
                      Tail(parts))

\* The body of the loop with the two tests of the elif branch in the other
\* order: an error indicator is looked for before an extension.
FailuresLineErrorsFirst(st, line) ==
    IF IsFailedLine(line)
    THEN [failures |->
              IF Truthy(st.current_hook)
              THEN Append(st.failures,
                          [hook |-> st.current_hook.val,
                           files |-> st.current_files,
                           errors |-> st.current_errors])
              ELSE st.failures,
          current_hook |-> Some(HookName(line)),
          current_files |-> <<>>,
          current_errors |-> <<>>]
    ELSE IF Truthy(st.current_hook) /\ Strip(line) # <<>>
    THEN IF ContainsAny(Lower(line), ErrorIndicators)
         THEN [st EXCEPT !.current_errors = Append(@, Strip(line))]
         ELSE IF ContainsAny(line, Extensions)
         THEN [st EXCEPT !.current_files = AddFiles(@, SplitWhitespace(Strip(line)))]
         ELSE st
    ELSE st

\* The body of the loop of _extract_failures.
FailuresLine(st, line) ==
    IF IsFailedLine(line)
    THEN [failures |->
              IF Truthy(st.current_hook)
              THEN Append(st.failures,
                          [hook |-> st.current_hook.val,
                           files |-> st.current_files,
                           errors |-> st.current_errors])
              ELSE st.failures,
          current_hook |-> Some(HookName(line)),
          current_files |-> <<>>,
          current_errors |-> <<>>]
    ELSE IF Truthy(st.current_hook) /\ Strip(line) # <<>>
    THEN IF ContainsAny(line, Extensions)
         THEN [st EXCEPT !.current_files = AddFiles(@, SplitWhitespace(Strip(line)))]
         ELSE IF ContainsAny(Lower(line), ErrorIndicators)
         THEN [st EXCEPT !.current_errors = Append(@, Strip(line))]
         ELSE st
    ELSE st

RECURSIVE FailuresLoop(_, _)
FailuresLoop(st, lines) ==
    IF lines = <<>> THEN st
    ELSE FailuresLoop(FailuresLine(st, Head(lines)), Tail(lines))

\* "Don't forget the last hook", and the return.
FailuresFlush(st) ==
    IF Truthy(st.current_hook)
    THEN Append(st.failures,
                [hook |-> st.current_hook.val, files |-> st.current_files,
                 errors |-> st.current_errors])
    ELSE st.failures

_extract_failures(out) ==
    FailuresFlush(FailuresLoop(FailuresStart, SplitOn(out, "\n")))

-----------------------------------------------------------------------------
(* _get_modified_files: the lines of git status --porcelain *)

Untracked == <<"?", "?">>

RECURSIVE PorcelainFiles(_)
PorcelainFiles(lines) ==
    IF lines = <<>> THEN <<>>
    ELSE LET line == Head(lines)
             filename == Strip(Drop(line, 3))
         IN  (IF Strip(line) # <<>> /\ ~StartsWith(line, Untracked)
                 /\ filename # <<>>
              THEN <<filename>> ELSE <<>>) \o PorcelainFiles(Tail(lines))


-----------------------------------------------------------------------------
(* Program constants *)

TIMEOUT_SECONDS == 60
PartialLimit == 1000
ContextLimit == 2000

\* The number of positional parameters pre_commit_run declares.
PreCommitRunParams == 0

GitNotInitializedError ==
    "Git repository not initialized. Please run 'git init' to initialize a repository."
NoConfigError == "No .pre-commit-config.yaml found in current directory."
ExecutionFailedError == "Pre-commit execution failed"
TimeoutError ==
    "Pre-commit execution exceeded " \o ToString(TIMEOUT_SECONDS) \o " seconds"
UnexpectedPrefix == "Unexpected error: "

ProcessTimedOut ==
    <<"P", "r", "o", "c", "e", "s", "s", " ", "t", "i", "m", "e", "d", " ",
      "o", "u", "t">>
CommandNotFound ==
    <<"p", "r", "e", "-", "c", "o", "m", "m", "i", "t", " ", "c", "o", "m",
      "m", "a", "n", "d", " ", "n", "o", "t", " ", "f", "o", "u", "n", "d",
      ".", " ", "I", "s", " ", "p", "r", "e", "-", "c", "o", "m", "m", "i",
      "t", " ", "i", "n", "s", "t", "a", "l", "l", "e", "d", "?">>

-----------------------------------------------------------------------------
(* What an invocation hands back *)

NoResult == [kind |-> "none"]
Returned(v) == [kind |-> "return", value |-> v]
Raised(e) == [kind |-> "raise", exc |-> e]

Exception(type, msg) == [type |-> type, msg |-> msg]

\* pre_commit_run(force_non_git): the call of a function of
\* PreCommitRunParams positional parameters with one positional argument.
TooManyArguments ==
    Exception("TypeError",
              "pre_commit_run() takes " \o ToString(PreCommitRunParams)
                  \o " positional arguments but 1 was given")

SpawnDenied == Exception("PermissionError", "[Errno 13] Permission denied: 'pre-commit'")
NoSuchProcess == Exception("ProcessLookupError", "")
PipeBroken == Exception("BrokenPipeError", "[Errno 32] Broken pipe")

NoOutcome == [pending |-> TRUE]
NoProcess == [state |-> "none", captured |-> <<>>]

-----------------------------------------------------------------------------
(* pre_commit_run: the results it builds *)

\* The repository check answering yes whatever the directory holds.
RepositoryCheckSkipped == TRUE

_is_git_repository == gitMarker

_has_precommit_config == configPresent

\* The dictionaries of lines 26-30 and 34-38.
PrecheckError(msg, elapsed) ==
    [status |-> "system_error", error |-> msg, execution_time |-> elapsed]

\* The except clause of pre_commit_run.
UnexpectedError(e, elapsed) ==
    [status |-> "system_error", error |-> UnexpectedPrefix \o e.msg,
     execution_time |-> elapsed]

\* The dictionary of lines 45-50.
TimeoutResult(res, elapsed) ==
    [status |-> "timeout", error |-> TimeoutError, execution_time |-> elapsed,
     partial_output |->
         IF res.stdout # <<>> THEN Some(Take(res.stdout, PartialLimit)) ELSE None]

-----------------------------------------------------------------------------
(* _run_precommit_command: the outcomes it builds *)

CompletedOutcome(returncode, out, err) ==
    [returncode |-> returncode, stdout |-> DecodeReplace(out),
     stderr |-> DecodeReplace(err), timed_out |-> FALSE]

TimedOutOutcome ==
    [returncode |-> -1, stdout |-> <<>>, stderr |-> ProcessTimedOut,
     timed_out |-> TRUE]

\* The dictionary of the FileNotFoundError clause with the flag of the
\* timeout dictionary.
NotFoundOutcomeTimedOut ==
    [returncode |-> -1, stdout |-> <<>>, stderr |-> CommandNotFound,
     timed_out |-> TRUE]

NotFoundOutcome ==
    [returncode |-> -1, stdout |-> <<>>, stderr |-> CommandNotFound,
     timed_out |-> FALSE]

\* The handler of TimeoutError with the inner except clause left out: an
\* error of kill() or wait() leaves _run_precommit_command.
AfterTerminationUnguarded(e) ==
    IF e.isNone THEN Returned(TimedOutOutcome) ELSE Raised(e.val)

\* The handler of TimeoutError, lines 89-97: kill() and wait() ran, e is the
\* error one of them raised, if any, which "except Exception: pass" drops.
AfterTermination(e) == Returned(TimedOutOutcome)

-----------------------------------------------------------------------------
(* _parse_precommit_output *)

\* The branch on a sign test instead of on the two codes.
ParseStatusBySign(returncode) ==
    IF returncode <= 0 THEN "success"
    ELSE IF returncode = 1 THEN "hooks_failed"
    ELSE "system_error"

\* The branch of lines 118, 130, 145.
ParseStatus(returncode) ==
    IF returncode = 0 THEN "success"
    ELSE IF returncode = 1 THEN "hooks_failed"
    ELSE "system_error"

\* Whether the branch taken awaits _get_modified_files.
ParseAwaitsModified(returncode) == ParseStatus(returncode) # "system_error"

WithWarnings(res, warnings) ==
    IF warnings # <<>>
    THEN [k \in DOMAIN res \cup {"warnings"} |->
             IF k = "warnings" THEN warnings ELSE res[k]]
    ELSE res

\* _parse_precommit_output, given what its await of _get_modified_files
\* returned.
_parse_precommit_output(returncode, out, err, elapsed, modified_files) ==
    LET clean_stdout == _strip_ansi_codes(out)
        clean_stderr == _strip_ansi_codes(err)
        warnings == _extract_warnings_and_info(clean_stdout)
    IN  CASE ParseStatus(returncode) = "success" ->
                WithWarnings([status |-> "success",
                              summary |-> _extract_summary(clean_stdout),
                              execution_time |-> elapsed,
                              modified_files |-> modified_files], warnings)
          [] ParseStatus(returncode) = "hooks_failed" ->
                WithWarnings([status |-> "hooks_failed",
                              summary |-> _extract_summary(clean_stdout),
                              failures |-> _extract_failures(clean_stdout),
                              execution_time |-> elapsed,
                              modified_files |-> modified_files,
                              context_output |-> Take(clean_stdout, ContextLimit)],
                             warnings)
          [] OTHER ->
                [status |-> "system_error", error |-> ExecutionFailedError,
                 execution_time |-> elapsed, raw_output |-> clean_stdout,
                 stderr |-> clean_stderr]


-----------------------------------------------------------------------------
(* The bounds of the model and what the environment may answer *)

\* The clock advances by TickStep seconds, up to MaxTime.
TickStep == 30
MaxTime == 90

Calls == {1, 2}

\* The functions a caller invokes: the exposed operation, and, as the tests
\* do, pre_commit_run and _get_modified_files themselves.
Entries == {"pre_commit_run_tool", "pre_commit_run", "_get_modified_files"}

\* Exit codes of pre-commit: passed, hooks failed, abnormal, killed by a
\* signal.
ReturnCodes == {0, 1, 2, -9}

ColouredPassed ==
    <<"a", ".", ESC, "[", "3", "2", "m">> \o Passed \o <<ESC, "[", "0", "m", "\n">>
HookFailedOutput ==
    <<"h", ".">> \o Failed \o <<"\n", "a", ".", "p", "y", " ", "E", "5", "\n">>

\* What pre-commit writes to its stdout and stderr, as bytes.
RunnerStdouts == {<<>>, ColouredPassed, HookFailedOutput}
RunnerStderrs == {<<>>, <<BadByte, "!">>}

\* What git status --porcelain writes to its stdout, and its exit codes.
GitStdouts ==
    {<<>>,
     <<" ", "M", " ", "a", ".", "p", "y", "\n", "?", "?", " ", "b", "\n">>,
     <<BadByte>>}
GitReturnCodes == {0, 128}

-----------------------------------------------------------------------------
(* The invocations *)

\* No invocation has begun; those of started may.
CallsIdle(started) ==
    /\ now = 0
    /\ active = started
    /\ pc = [c \in Calls |-> "idle"]
    /\ entry = [c \in Calls |-> "pre_commit_run"]
    /\ force = [c \in Calls |-> FALSE]
    /\ start_time = [c \in Calls |-> 0]
    /\ wait_start = [c \in Calls |-> 0]
    /\ proc = [c \in Calls |-> NoProcess]
    /\ outcome = [c \in Calls |-> NoOutcome]
    /\ execution_time = [c \in Calls |-> 0]
    /\ modified = [c \in Calls |-> <<>>]
    /\ gitrc = [c \in Calls |-> 0]
    /\ result = [c \in Calls |-> NoResult]
    /\ log = [c \in Calls |-> <<>>]

PureIdle ==
    /\ input = <<>>
    /\ applied = FALSE
    /\ output = <<>>

\* One invocation, in a working directory with or without the repository
\* marker and the configuration file.
Init ==
    /\ gitMarker \in BOOLEAN
    /\ configPresent \in BOOLEAN
    /\ CallsIdle({1})
    /\ PureIdle

\* time.time() advances.
Tick ==
    /\ now + TickStep <= MaxTime
    /\ now' = now + TickStep
    /\ UNCHANGED <<envVars, callVars, pureVars>>

\* The caller invokes pre_commit_run_tool(f), whose body calls
\* pre_commit_run(force_non_git) with one positional argument.
InvokeTool(c) ==
    /\ pc[c] = "idle" /\ c \in active
    /\ \E f \in BOOLEAN :
         /\ force' = [force EXCEPT ![c] = f]
         /\ entry' = [entry EXCEPT ![c] = "pre_commit_run_tool"]
         /\ IF 1 > PreCommitRunParams
            THEN /\ result' = [result EXCEPT ![c] = Raised(TooManyArguments)]
                 /\ pc' = [pc EXCEPT ![c] = "done"]
                 /\ UNCHANGED start_time
            ELSE /\ start_time' = [start_time EXCEPT ![c] = now]
                 /\ pc' = [pc EXCEPT ![c] = "check_repo"]
                 /\ UNCHANGED result
    /\ UNCHANGED <<envVars, now, active, wait_start, proc, outcome,
                   execution_time, modified, gitrc, log, pureVars>>

\* The caller invokes pre_commit_run(): line 21.
InvokeRun(c) ==
    /\ pc[c] = "idle" /\ c \in active
    /\ entry' = [entry EXCEPT ![c] = "pre_commit_run"]
    /\ start_time' = [start_time EXCEPT ![c] = now]
    /\ pc' = [pc EXCEPT ![c] = "check_repo"]
    /\ UNCHANGED <<envVars, now, active, force, wait_start, proc, outcome,
                   execution_time, modified, gitrc, result, log, pureVars>>

\* The caller invokes _get_modified_files().
InvokeModified(c) ==
    /\ pc[c] = "idle" /\ c \in active
    /\ entry' = [entry EXCEPT ![c] = "_get_modified_files"]
    /\ pc' = [pc EXCEPT ![c] = "git_check"]
    /\ UNCHANGED <<envVars, now, active, force, start_time, wait_start, proc,
                   outcome, execution_time, modified, gitrc, result, log,
                   pureVars>>

\* Lines 25-30.
CheckRepository(c) ==
    /\ pc[c] = "check_repo"
    /\ log' = [log EXCEPT ![c] = Append(@, "repo_check")]
    /\ IF ~_is_git_repository
       THEN /\ result' = [result EXCEPT ![c] =
                  Returned(PrecheckError(GitNotInitializedError, now - start_time[c]))]
            /\ pc' = [pc EXCEPT ![c] = "done"]
       ELSE /\ pc' = [pc EXCEPT ![c] = "check_config"]
            /\ UNCHANGED result
    /\ UNCHANGED <<envVars, now, active, entry, force, start_time, wait_start,
                   proc, outcome, execution_time, modified, gitrc, pureVars>>

\* Lines 33-38.
CheckConfig(c) ==
    /\ pc[c] = "check_config"
    /\ log' = [log EXCEPT ![c] = Append(@, "config_check")]
    /\ IF ~_has_precommit_config
       THEN /\ result' = [result EXCEPT ![c] =
                  Returned(PrecheckError(NoConfigError, now - start_time[c]))]
            /\ pc' = [pc EXCEPT ![c] = "done"]
       ELSE /\ pc' = [pc EXCEPT ![c] = "spawn"]
            /\ UNCHANGED result
    /\ UNCHANGED <<envVars, now, active, entry, force, start_time, wait_start,
                   proc, outcome, execution_time, modified, gitrc, pureVars>>

\* Lines 74-76: create_subprocess_exec starts pre-commit, and wait_for is
\* entered.
Spawn(c) ==
    /\ pc[c] = "spawn"
    /\ proc' = [proc EXCEPT ![c] = [state |-> "running", captured |-> <<>>]]
    /\ wait_start' = [wait_start EXCEPT ![c] = now]
    /\ log' = [log EXCEPT ![c] = Append(@, "spawn")]
    /\ pc' = [pc EXCEPT ![c] = "communicate"]
    /\ UNCHANGED <<envVars, now, active, entry, force, start_time, outcome,
                   execution_time, modified, gitrc, result, pureVars>>

\* Lines 99-105: create_subprocess_exec raises FileNotFoundError.
SpawnNotFound(c) ==
    /\ pc[c] = "spawn"
    /\ outcome' = [outcome EXCEPT ![c] = NotFoundOutcome]
    /\ log' = [log EXCEPT ![c] = Append(@, "spawn_not_found")]
    /\ pc' = [pc EXCEPT ![c] = "classify"]
    /\ UNCHANGED <<envVars, now, active, entry, force, start_time, wait_start,
                   proc, execution_time, modified, gitrc, result, pureVars>>

\* create_subprocess_exec raises another error, which no clause of
\* _run_precommit_command catches: lines 55-56.
SpawnFails(c) ==
    /\ pc[c] = "spawn"
    /\ result' = [result EXCEPT ![c] =
           Returned(UnexpectedError(SpawnDenied, now - start_time[c]))]
    /\ pc' = [pc EXCEPT ![c] = "done"]
    /\ UNCHANGED <<envVars, now, active, entry, force, start_time, wait_start,
                   proc, outcome, execution_time, modified, gitrc, log,
                   pureVars>>

\* Lines 80-87: the process exits and communicate() returns before wait_for
\* gives up.
Complete(c) ==
    /\ pc[c] = "communicate"
    /\ \E rc \in ReturnCodes, out \in RunnerStdouts, err \in RunnerStderrs :
         /\ proc' = [proc EXCEPT ![c] = [state |-> "exited", captured |-> out]]
         /\ outcome' = [outcome EXCEPT ![c] = CompletedOutcome(rc, out, err)]
    /\ pc' = [pc EXCEPT ![c] = "classify"]
    /\ UNCHANGED <<envVars, now, active, entry, force, start_time, wait_start,
                   execution_time, modified, gitrc, result, log, pureVars>>

\* Line 89: TIMEOUT_SECONDS have passed and wait_for raises TimeoutError;
\* the process has written some of its output by then.
TimeoutFires(c) ==
    /\ pc[c] = "communicate"
    /\ now - wait_start[c] >= TIMEOUT_SECONDS
    /\ \E out \in RunnerStdouts :
         proc' = [proc EXCEPT ![c] = [state |-> "running", captured |-> out]]
    /\ log' = [log EXCEPT ![c] = Append(@, "timeout")]
    /\ pc' = [pc EXCEPT ![c] = "kill"]
    /\ UNCHANGED <<envVars, now, active, entry, force, start_time, wait_start,
                   outcome, execution_time, modified, gitrc, result, pureVars>>

\* What leaves _run_precommit_command after the handler of TimeoutError:
\* its return value, or an error for the except clause of pre_commit_run.
LeaveRunner(c, left) ==
    IF left.kind = "return"
    THEN /\ outcome' = [outcome EXCEPT ![c] = left.value]
         /\ pc' = [pc EXCEPT ![c] = "classify"]
         /\ UNCHANGED result
    ELSE /\ result' = [result EXCEPT ![c] =
                Returned(UnexpectedError(left.exc, now - start_time[c]))]
         /\ pc' = [pc EXCEPT ![c] = "done"]
         /\ UNCHANGED outcome

\* kill() on a process handle the invocations share: every running
\* pre-commit process is killed.
KillShared(c) ==
    /\ pc[c] = "kill"
    /\ proc' = [d \in Calls |->
                   IF proc[d].state = "running"
                   THEN [proc[d] EXCEPT !.state = "killed"] ELSE proc[d]]
    /\ log' = [log EXCEPT ![c] = Append(@, "kill")]
    /\ pc' = [pc EXCEPT ![c] = "reap"]
    /\ UNCHANGED <<envVars, now, active, entry, force, start_time, wait_start,
                   outcome, execution_time, modified, gitrc, result, pureVars>>

\* Line 92: process.kill() succeeds; line 93 awaits process.wait().
Kill(c) ==
    /\ pc[c] = "kill"
    /\ proc' = [proc EXCEPT ![c].state = "killed"]
    /\ log' = [log EXCEPT ![c] = Append(@, "kill")]
    /\ pc' = [pc EXCEPT ![c] = "reap"]
    /\ UNCHANGED <<envVars, now, active, entry, force, start_time, wait_start,
                   outcome, execution_time, modified, gitrc, result, pureVars>>

\* Line 92: process.kill() raises (the process is gone already).
KillFails(c) ==
    /\ pc[c] = "kill"
    /\ proc' = [proc EXCEPT ![c].state = "exited"]
    /\ log' = [log EXCEPT ![c] = Append(@, "kill_error")]
    /\ LeaveRunner(c, AfterTermination(Some(NoSuchProcess)))
    /\ UNCHANGED <<envVars, now, active, entry, force, start_time, wait_start,
                   execution_time, modified, gitrc, pureVars>>

\* Line 93: process.wait() returns.
Reap(c) ==
    /\ pc[c] = "reap"
    /\ log' = [log EXCEPT ![c] = Append(@, "wait")]
    /\ LeaveRunner(c, AfterTermination(None))
    /\ UNCHANGED <<envVars, now, active, entry, force, start_time, wait_start,
                   proc, execution_time, modified, gitrc, pureVars>>

\* Line 93: process.wait() raises.
ReapFails(c) ==
    /\ pc[c] = "reap"
    /\ log' = [log EXCEPT ![c] = Append(@, "wait_error")]
    /\ LeaveRunner(c, AfterTermination(Some(PipeBroken)))
    /\ UNCHANGED <<envVars, now, active, entry, force, start_time, wait_start,
                   proc, execution_time, modified, gitrc, pureVars>>

\* Lines 42-53, up to the await of _get_modified_files in
\* _parse_precommit_output (lines 124, 138).
Classify(c) ==
    /\ pc[c] = "classify"
    /\ execution_time' = [execution_time EXCEPT ![c] = now - start_time[c]]
    /\ IF outcome[c].timed_out
       THEN /\ result' = [result EXCEPT ![c] =
                  Returned(TimeoutResult(outcome[c], now - start_time[c]))]
            /\ pc' = [pc EXCEPT ![c] = "done"]
       ELSE IF ParseAwaitsModified(outcome[c].returncode)
       THEN /\ pc' = [pc EXCEPT ![c] = "git_check"]
            /\ UNCHANGED result
       ELSE /\ result' = [result EXCEPT ![c] =
                  Returned(_parse_precommit_output(
                      outcome[c].returncode, outcome[c].stdout,
                      outcome[c].stderr, now - start_time[c], <<>>))]
            /\ pc' = [pc EXCEPT ![c] = "done"]
    /\ UNCHANGED <<envVars, now, active, entry, force, start_time, wait_start,
                   proc, outcome, modified, gitrc, log, pureVars>>

\* _get_modified_files returns files: to its caller, or to
\* _parse_precommit_output, which returns its dictionary through
\* pre_commit_run.
ReturnModified(c, files) ==
    /\ modified' = [modified EXCEPT ![c] = files]
    /\ result' = [result EXCEPT ![c] =
           IF entry[c] = "_get_modified_files"
           THEN Returned(files)
           ELSE Returned(_parse_precommit_output(
                    outcome[c].returncode, outcome[c].stdout,
                    outcome[c].stderr, execution_time[c], files))]
    /\ pc' = [pc EXCEPT ![c] = "done"]

\* Lines 263-264: no repository marker.
GitSkipped(c) ==
    /\ pc[c] = "git_check"
    /\ ~_is_git_repository
    /\ log' = [log EXCEPT ![c] = Append(@, "marker_check")]
    /\ ReturnModified(c, <<>>)
    /\ UNCHANGED <<envVars, now, active, entry, force, start_time, wait_start,
                   proc, outcome, execution_time, gitrc, pureVars>>

\* Lines 267-269: create_subprocess_exec starts git status.
GitSpawn(c) ==
    /\ pc[c] = "git_check"
    /\ _is_git_repository
    /\ log' = [log EXCEPT ![c] = Append(@, "git_spawn")]
    /\ pc' = [pc EXCEPT ![c] = "git_communicate"]
    /\ UNCHANGED <<envVars, now, active, entry, force, start_time, wait_start,
                   proc, outcome, execution_time, modified, gitrc, result,
                   pureVars>>

\* Lines 267, 283-284: create_subprocess_exec raises (git is missing).
GitSpawnFails(c) ==
    /\ pc[c] = "git_check"
    /\ _is_git_repository
    /\ log' = [log EXCEPT ![c] = Append(@, "git_missing")]
    /\ ReturnModified(c, <<>>)
    /\ UNCHANGED <<envVars, now, active, entry, force, start_time, wait_start,
                   proc, outcome, execution_time, gitrc, pureVars>>

\* Lines 271-281, 283-284: git exits and communicate() returns its output,
\* which is decoded and read line by line.
GitCompletes(c) ==
    /\ pc[c] = "git_communicate"
    /\ \E rc \in GitReturnCodes, out \in GitStdouts :
         /\ gitrc' = [gitrc EXCEPT ![c] = rc]
         /\ log' = [log EXCEPT ![c] = Append(@, "git_exit")]
         /\ ReturnModified(c, IF DecodeStrictRaises(out) THEN <<>>
                              ELSE PorcelainFiles(SplitOn(out, "\n")))
    /\ UNCHANGED <<envVars, now, active, entry, force, start_time, wait_start,
                   proc, outcome, execution_time, pureVars>>

\* Lines 271, 283-284: communicate() raises.
GitCommunicateFails(c) ==
    /\ pc[c] = "git_communicate"
    /\ log' = [log EXCEPT ![c] = Append(@, "git_io_error")]
    /\ ReturnModified(c, <<>>)
    /\ UNCHANGED <<envVars, now, active, entry, force, start_time, wait_start,
                   proc, outcome, execution_time, gitrc, pureVars>>

Step(c) ==
    \/ InvokeTool(c)
    \/ InvokeRun(c)
    \/ InvokeModified(c)
    \/ CheckRepository(c)
    \/ CheckConfig(c)
    \/ Spawn(c)
    \/ SpawnNotFound(c)
    \/ SpawnFails(c)
    \/ Complete(c)
    \/ TimeoutFires(c)
    \/ Kill(c)
    \/ KillFails(c)
    \/ Reap(c)
    \/ ReapFails(c)
    \/ Classify(c)
    \/ GitSkipped(c)
    \/ GitSpawn(c)
    \/ GitSpawnFails(c)
    \/ GitCompletes(c)
    \/ GitCommunicateFails(c)

Next == Tick \/ \E c \in Calls : Step(c)

Spec == Init /\ [][Next]_vars


-----------------------------------------------------------------------------
(* The pure functions, each applied to every text of a bounded set *)

RECURSIVE Concats(_, _)
\* The texts made of at most n of the fragments frags, one after the other.
Concats(frags, n) ==
    IF n = 0 THEN {<<>>}
    ELSE LET shorter == Concats(frags, n - 1)
         IN  shorter \cup {t \o f : t \in shorter, f \in frags}

InitPure(texts) ==
    /\ gitMarker = FALSE
    /\ configPresent = FALSE
    /\ CallsIdle({})
    /\ input \in texts
    /\ applied = FALSE
    /\ output = <<>>

\* _strip_ansi_codes on texts of escape characters, the bytes of the three
\* classes of a CSI sequence, and a single-character escape.
MaxStripLen == 5
StripAlphabet == {<<ESC>>, <<"[">>, <<"0">>, <<" ">>, <<"m">>, <<"A">>}

InitStrip == InitPure(Concats(StripAlphabet, MaxStripLen))

ApplyStrip ==
    /\ ~applied
    /\ applied' = TRUE
    /\ output' = _strip_ansi_codes(input)
    /\ UNCHANGED <<envVars, now, callVars, input>>

SpecStrip == InitStrip /\ [][ApplyStrip]_vars

\* _extract_summary on texts of markers of the three kinds, a character
\* that is none, and line breaks.
MaxSummaryFrags == 5
SummaryFragments ==
    {Passed, FAILED, <<CrossMark>>, Skipped, NoFilesToCheck, <<"x">>, <<"\n">>}

InitSummary == InitPure(Concats(SummaryFragments, MaxSummaryFrags))

ApplySummary ==
    /\ ~applied
    /\ applied' = TRUE
    /\ output' = _extract_summary(input)
    /\ UNCHANGED <<envVars, now, callVars, input>>

SpecSummary == InitSummary /\ [][ApplySummary]_vars

\* _extract_failures on texts of the two terminators, dots, spaces, line
\* breaks, two file names (the second with a space after it) and an error
\* code.
MaxFailureFrags == 5
FailureFragments ==
    {Failed, FAILED, <<".">>, <<" ">>, <<"\n">>, <<"h">>,
     <<"a", ".", "p", "y">>, <<"b", ".", "y", "m", "l", " ">>, <<"E", "5">>}

InitFailures == InitPure(Concats(FailureFragments, MaxFailureFrags))

ApplyFailures ==
    /\ ~applied
    /\ applied' = TRUE
    /\ output' = _extract_failures(input)
    /\ UNCHANGED <<envVars, now, callVars, input>>

SpecFailures == InitFailures /\ [][ApplyFailures]_vars


-----------------------------------------------------------------------------
(* The claims *)

Statuses == {"success", "hooks_failed", "timeout", "system_error"}

InLog(c, e) == \E i \in 1..Len(log[c]) : log[c][i] = e

Finished(c) == pc[c] = "done"

\* The invocation entered _run_precommit_command and has left it.
RunnerLeft(c) == pc[c] \in {"classify", "git_check", "git_communicate", "done"}

\* C1: every invocation of pre_commit_run_tool ends with the caller
\* receiving a result record with one of the four statuses and an
\* execution_time; an exception of the pipeline arrives as system_error
\* carrying the exception's message, and no raw exception reaches the
\* caller.
C1_ToolAlwaysReturnsResult ==
    \A c \in Calls :
        Finished(c) /\ entry[c] = "pre_commit_run_tool" =>
            /\ result[c].kind = "return"
            /\ result[c].value.status \in Statuses
            /\ "execution_time" \in DOMAIN result[c].value

\* C2: with force_non_git true, no repository marker and the configuration
\* file present, the repository precheck passes and the invocation goes on
\* to the hook runner, returning success when the runner exits with 0.
C2_ForceOverridesRepositoryCheck ==
    \A c \in Calls :
        (/\ Finished(c) /\ entry[c] = "pre_commit_run_tool"
         /\ force[c] /\ ~gitMarker /\ configPresent)
        => /\ result[c].kind = "return"
           /\ InLog(c, "config_check")
           /\ (outcome[c] # NoOutcome /\ ~outcome[c].timed_out
               /\ outcome[c].returncode = 0
               => result[c].value.status = "success")

C4_StatusByReturnCode ==
    \A c \in Calls :
        (/\ Finished(c) /\ entry[c] = "pre_commit_run"
         /\ outcome[c] # NoOutcome /\ ~outcome[c].timed_out)
        => /\ result[c].kind = "return"
           /\ (result[c].value.status = "success" <=> outcome[c].returncode = 0)
           /\ (result[c].value.status = "hooks_failed" <=> outcome[c].returncode = 1)
           /\ (result[c].value.status = "system_error"
               <=> outcome[c].returncode \notin {0, 1})
           /\ "execution_time" \in DOMAIN result[c].value
           /\ result[c].value.execution_time = execution_time[c]

C4_Witness ==
    \E c \in Calls :
        /\ Finished(c) /\ entry[c] = "pre_commit_run"
        /\ outcome[c] # NoOutcome /\ ~outcome[c].timed_out
        /\ outcome[c].returncode = 1
        /\ result[c].value.status = "hooks_failed"
        /\ result[c].value.execution_time < now - start_time[c]

\* C4 on a negative return code: a process killed by a signal is a
\* system_error.
C4_NegativeCodeReached ==
    \E c \in Calls :
        /\ Finished(c) /\ outcome[c] # NoOutcome /\ ~outcome[c].timed_out
        /\ outcome[c].returncode < 0
        /\ result[c].value.status = "system_error"

\* C5: when the process exceeds the deadline the operation returns status
\* timeout, and partial_output is the first min(1000, length) characters
\* of the stdout captured before the process was terminated.
C5_TimeoutCarriesPartialOutput ==
    \A c \in Calls :
        Finished(c) /\ InLog(c, "timeout") =>
            /\ result[c].kind = "return"
            /\ result[c].value.status = "timeout"
            /\ (proc[c].captured # <<>> =>
                    result[c].value.partial_output =
                        Some(Take(DecodeReplace(proc[c].captured), PartialLimit)))

\* The lines of the text whose trimmed form ends in FAILED or Failed.
FailedLineIndexes(text) ==
    {i \in 1..Len(SplitOn(text, "\n")) : IsFailedLine(SplitOn(text, "\n")[i])}

\* C6: _extract_failures returns as many entries as there are lines whose
\* trimmed form ends in FAILED or Failed.
C6_OneEntryPerFailedLine ==
    applied => Len(output) = Cardinality(FailedLineIndexes(input))

\* C7: in _extract_summary each line raises at most one counter, the first
\* that matches in the order passed, failed, skipped; the counters add up
\* to the number of lines holding a marker, which is at most the number of
\* lines, and none is negative.
C7_SummaryPartition ==
    applied =>
        LET lines == SplitOn(input, "\n")
            p(i) == ContainsAny(lines[i], PassedMarkers)
            f(i) == ContainsAny(lines[i], FailedMarkers)
            k(i) == ContainsAny(lines[i], SkippedMarkers)
            all == 1..Len(lines)
            total == output.hooks_passed + output.hooks_failed
                        + output.hooks_skipped
        IN  /\ output.hooks_passed = Cardinality({i \in all : p(i)})
            /\ output.hooks_failed = Cardinality({i \in all : ~p(i) /\ f(i)})
            /\ output.hooks_skipped =
                   Cardinality({i \in all : ~p(i) /\ ~f(i) /\ k(i)})
            /\ total = Cardinality({i \in all : p(i) \/ f(i) \/ k(i)})
            /\ total <= 1 + Cardinality({i \in 1..Len(input) : input[i] = "\n"})
            /\ output.hooks_passed >= 0
            /\ output.hooks_failed >= 0
            /\ output.hooks_skipped >= 0

C7_Witness ==
    /\ applied
    /\ \E i \in 1..Len(SplitOn(input, "\n")) :
         /\ ContainsAny(SplitOn(input, "\n")[i], PassedMarkers)
         /\ ContainsAny(SplitOn(input, "\n")[i], FailedMarkers)
    /\ output.hooks_passed = 1
    /\ output.hooks_failed = 1

\* C8: _strip_ansi_codes is idempotent, and leaves a text without an ESC
\* character as it is.
C8_StripIdempotent ==
    applied =>
        /\ _strip_ansi_codes(output) = output
        /\ ((\A i \in 1..Len(input) : input[i] # ESC) => output = input)

\* C9: _get_modified_files returns the empty list, starting no query, when
\* there is no repository marker, and returns the empty list whenever the
\* query fails: git missing, a non-zero exit code, an I/O or a decoding
\* error.
C9_EmptyOnQueryFailure ==
    \A c \in Calls :
        Finished(c) =>
            /\ (InLog(c, "marker_check") =>
                    modified[c] = <<>> /\ ~InLog(c, "git_spawn"))
            /\ (InLog(c, "git_missing") \/ InLog(c, "git_io_error")
                    => modified[c] = <<>>)
            /\ (InLog(c, "git_exit") /\ gitrc[c] # 0 => modified[c] = <<>>)

\* C10: once the deadline has passed, _run_precommit_command kills the
\* process and then returns timed_out = true, returncode = -1 and stderr
\* "Process timed out", also when kill() or wait() raises; every outcome
\* with timed_out = true has returncode = -1.
C10_TimeoutOutcome ==
    \A c \in Calls :
        /\ (outcome[c] # NoOutcome /\ outcome[c].timed_out
            => /\ outcome[c].returncode = -1
               /\ outcome[c].stderr = ProcessTimedOut
               /\ InLog(c, "timeout")
               /\ (InLog(c, "kill") \/ InLog(c, "kill_error"))
               /\ (InLog(c, "kill") => proc[c].state = "killed"))
        /\ (InLog(c, "timeout") /\ RunnerLeft(c)
            => outcome[c] # NoOutcome /\ outcome[c].timed_out)

C10_Witness ==
    \E c \in Calls :
        /\ InLog(c, "wait_error")
        /\ proc[c].state = "killed"
        /\ outcome[c] # NoOutcome /\ outcome[c].timed_out
        /\ Finished(c) /\ result[c].value.status = "timeout"


NotFoundText == <<"n", "o", "t", " ", "f", "o", "u", "n", "d">>

\* C11: when create_subprocess_exec cannot locate pre-commit,
\* _run_precommit_command returns (nothing is raised) returncode = -1,
\* stdout = "", timed_out = false and a stderr holding "not found";
\* pre_commit_run then returns status system_error, not timeout, with that
\* message as the result's stderr.
C11_NotFoundIsSystemError ==
    \A c \in Calls :
        InLog(c, "spawn_not_found") =>
            /\ RunnerLeft(c)
            /\ outcome[c] # NoOutcome
            /\ outcome[c].returncode = -1
            /\ outcome[c].stdout = <<>>
            /\ outcome[c].timed_out = FALSE
            /\ Contains(outcome[c].stderr, NotFoundText)
            /\ proc[c] = NoProcess
            /\ (Finished(c) =>
                   /\ result[c].kind = "return"
                   /\ result[c].value.status = "system_error"
                   /\ result[c].value.stderr = outcome[c].stderr
                   /\ Contains(result[c].value.stderr, NotFoundText))

C11_Witness ==
    \E c \in Calls :
        /\ InLog(c, "spawn_not_found")
        /\ Finished(c)
        /\ entry[c] = "pre_commit_run"
        /\ result[c].value.status = "system_error"
        /\ result[c].value.stderr = CommandNotFound


-----------------------------------------------------------------------------
(* Two invocations of pre_commit_run at once *)

\* What the pre-commit process of each invocation writes: a different text
\* for each, so that an outcome handed to the wrong invocation shows.
PairStdout(c) == IF c = 1 THEN ColouredPassed ELSE HookFailedOutput

InitPair ==
    /\ gitMarker \in BOOLEAN
    /\ configPresent \in BOOLEAN
    /\ CallsIdle(Calls)
    /\ PureIdle

\* Complete, for the process of invocation c writing PairStdout(c) and
\* nothing to stderr.
PairComplete(c) ==
    /\ Complete(c)
    /\ proc'[c].captured = PairStdout(c)
    /\ outcome'[c].stderr = <<>>

\* TimeoutFires, the process having written PairStdout(c).
PairTimeoutFires(c) ==
    /\ TimeoutFires(c)
    /\ proc'[c].captured = PairStdout(c)

\* GitCompletes, git exiting with 0.
PairGitCompletes(c) ==
    /\ GitCompletes(c)
    /\ gitrc'[c] = 0

PairStep(c) ==
    \/ InvokeTool(c)
    \/ InvokeRun(c)
    \/ CheckRepository(c)
    \/ CheckConfig(c)
    \/ Spawn(c)
    \/ SpawnNotFound(c)
    \/ SpawnFails(c)
    \/ PairComplete(c)
    \/ PairTimeoutFires(c)
    \/ Kill(c)
    \/ KillFails(c)
    \/ Reap(c)
    \/ ReapFails(c)
    \/ Classify(c)
    \/ GitSpawn(c)
    \/ GitSpawnFails(c)
    \/ PairGitCompletes(c)
    \/ GitCommunicateFails(c)

NextPair == Tick \/ \E c \in Calls : PairStep(c)

SpecPair == InitPair /\ [][NextPair]_vars

\* Everything one invocation holds: its position, its arguments, its
\* process handle, its locals and what it returned.
CallState(c) ==
    <<pc[c], entry[c], force[c], start_time[c], wait_start[c], proc[c],
      outcome[c], execution_time[c], modified[c], gitrc[c], result[c], log[c]>>

\* What invocation c returns when it runs alone in this directory, its
\* pre-commit process ending as outcome[c] and git status listing modified[c].
AloneResult(c) ==
    IF entry[c] = "pre_commit_run_tool" THEN Raised(TooManyArguments)
    ELSE IF ~gitMarker
    THEN Returned(PrecheckError(GitNotInitializedError,
                                result[c].value.execution_time))
    ELSE IF ~configPresent
    THEN Returned(PrecheckError(NoConfigError, result[c].value.execution_time))
    ELSE IF outcome[c] = NoOutcome
    THEN Returned(UnexpectedError(SpawnDenied, result[c].value.execution_time))
    ELSE IF outcome[c].timed_out
    THEN Returned(TimeoutResult(outcome[c], execution_time[c]))
    ELSE Returned(_parse_precommit_output(
             outcome[c].returncode, outcome[c].stdout, outcome[c].stderr,
             execution_time[c], modified[c]))

C12_Owned ==
    \A c \in Calls :
        /\ (proc[c] # NoProcess) <=> InLog(c, "spawn")
        /\ proc[c] # NoProcess /\ proc[c].state # "running"
               => proc[c].captured = PairStdout(c)
        /\ proc[c].state = "killed" => InLog(c, "timeout") /\ InLog(c, "kill")
        /\ proc[c].state = "exited" /\ outcome[c] # NoOutcome
           /\ ~outcome[c].timed_out
               => outcome[c].stdout = DecodeReplace(PairStdout(c))
        /\ Finished(c) => result[c] = AloneResult(c)

C12_StepsAreLocal ==
    /\ gitMarker' = gitMarker /\ configPresent' = configPresent
    /\ \A c \in Calls :
           CallState(c)' # CallState(c)
               => \A d \in Calls \ {c} : CallState(d)' = CallState(d)

\* C12: two invocations whose steps interleave at the awaits do not
\* interfere. Every step changes the state of one invocation only (its
\* process handle, its locals, its result) and never the directory; an
\* invocation's process is killed only after that invocation's own timeout;
\* the outcome an invocation classifies is the one of its own process; and
\* the result of each finished invocation is the one it returns alone on the
\* same process outcome, modified files and directory state.
C12_NoInterference == []C12_Owned /\ [][C12_StepsAreLocal]_vars

\* One invocation is killed after its timeout while the process of the
\* other, started later, still runs, and both finish with their own results.
C12_Witness ==
    /\ Finished(1) /\ Finished(2)
    /\ InLog(1, "kill") /\ proc[1].state = "killed"
    /\ result[1] = Returned(TimeoutResult(TimedOutOutcome, execution_time[1]))
    /\ proc[2].state = "exited" /\ ~InLog(2, "timeout")
    /\ start_time[2] > start_time[1]
    /\ result[2].kind = "return" /\ result[2].value.status = "hooks_failed"
    /\ result[2] = AloneResult(2)

-----------------------------------------------------------------------------
(* C13 *)

\* The n-th smallest member of a set of line numbers.
NthOf(S, n) == CHOOSE j \in S : Cardinality({m \in S : m <= j}) = n

\* The lines that open a block as the code has it: the loop tests
\* current_hook for truth, and the name taken from the line is not empty.
OpeningLines(lines) ==
    {i \in 1..Len(lines) : IsFailedLine(lines[i]) /\ HookName(lines[i]) # <<>>}

\* The non-blank lines read while the block opened by line i is open: those
\* after line i and before the next line ending in FAILED or Failed.
BlockLines(lines, i) ==
    {j \in (i + 1)..Len(lines) :
        /\ Strip(lines[j]) # <<>>
        /\ \A m \in (i + 1)..j : ~IsFailedLine(lines[m])}

\* The whitespace-delimited tokens of a line that contain an extension.
FileTokens(line) ==
    LET parts == SplitWhitespace(Strip(line))
    IN  {parts[k] : k \in {k \in 1..Len(parts) : ContainsAny(parts[k], Extensions)}}

\* Where token t first occurs in the lines of the set F: the line number
\* and the position among the tokens of that line.
FirstOccurrence(lines, F, t) ==
    LET j == CHOOSE j \in F :
                 /\ t \in FileTokens(lines[j])
                 /\ \A m \in F : t \in FileTokens(lines[m]) => j <= m
        parts == SplitWhitespace(Strip(lines[j]))
        k == CHOOSE k \in 1..Len(parts) :
                 parts[k] = t /\ \A n \in 1..(k - 1) : parts[n] # t
    IN  <<j, k>>

Before(a, b) == a[1] < b[1] \/ (a[1] = b[1] /\ a[2] < b[2])

\* C13: in every block _extract_failures returns, a line of the block that
\* contains an extension gives its tokens containing an extension to files
\* and nothing to errors, also when it contains an error indicator: files
\* holds exactly those tokens, each once, in the order of their first
\* occurrence; errors holds the trimmed lines of the block that contain an
\* error indicator and no extension, in their order; and no entry of errors
\* contains an extension.
C13_FilesBeforeErrors ==
    applied =>
        LET lines == SplitOn(input, "\n")
            O == OpeningLines(lines)
        IN  /\ Len(output) = Cardinality(O)
            /\ \A n \in 1..Len(output) :
                 LET i == NthOf(O, n)
                     B == BlockLines(lines, i)
                     F == {j \in B : ContainsAny(lines[j], Extensions)}
                     E == {j \in B \ F :
                              ContainsAny(Lower(lines[j]), ErrorIndicators)}
                     files == output[n].files
                     errors == output[n].errors
                 IN  /\ output[n].hook = HookName(lines[i])
                     /\ {files[k] : k \in 1..Len(files)}
                            = UNION {FileTokens(lines[j]) : j \in F}
                     /\ \A a, b \in 1..Len(files) :
                            a < b =>
                                /\ files[a] # files[b]
                                /\ Before(FirstOccurrence(lines, F, files[a]),
                                          FirstOccurrence(lines, F, files[b]))
                     /\ Len(errors) = Cardinality(E)
                     /\ \A k \in 1..Len(errors) :
                            /\ errors[k] = Strip(lines[NthOf(E, k)])
                            /\ ~ContainsAny(errors[k], Extensions)

\* A block with a line that contains two file names and an error
\* indicator: the two names are in files in their order, errors is empty.
C13_Witness ==
    /\ applied
    /\ Len(output) = 1
    /\ LET lines == SplitOn(input, "\n")
       IN  /\ Len(lines) = 2
           /\ ContainsAny(lines[2], Extensions)
           /\ ContainsAny(Lower(lines[2]), ErrorIndicators)
    /\ Len(output[1].files) = 2
    /\ output[1].files[1] = <<"b", ".", "y", "m", "l">>
    /\ output[1].errors = <<>>

=============================================================================
